---------------------------- MODULE Spec2Model ----------------------------
(***************************************************************************)
(* Model of read_oscilloscope.py: the text parsing of the instrument's     *)
(* responses, calculate_resistance, the polling loop of                    *)
(* continuous_measurement and the session handling of main.                *)
(*                                                                         *)
(* Text is a sequence of one-character strings.  Numbers are exact         *)
(* rationals <<n, d>> in lowest terms with d > 0 (Python's binary          *)
(* rounding is not modelled).  The alphabet of the modelled responses has  *)
(* digits, sign, point, comma, blank and the letters C V A v B D, so       *)
(* float() is modelled on that alphabet: blanks stripped, an optional      *)
(* sign, digits with at most one point and at least one digit.             *)
(***************************************************************************)
EXTENDS Integers, Sequences, FiniteSets, TLC

VARIABLES
    pc,            \* position of the control flow
    k,             \* which of the four writes / queries / conversions is next
    inst,          \* main's local inst: "unbound", "open" or "closed"
    closes,        \* number of inst.close() calls that were made
    written,       \* commands sent with inst.write, in order
    nq,            \* number of inst.query calls that returned
    iter,          \* number of loop iterations finished
    sleeps,        \* number of time.sleep(1) pacing delays taken in the loop
    out,           \* the lines printed on standard output, in order
    exc,           \* the exception in flight, or "none"
    resp,          \* locals rms_c1, mean_c1, rms_c2, mean_c2 (stripped text)
    mv,            \* locals rms_c1_mv, mean_c1_mv, rms_c2_mv, mean_c2_mv
    r_sensor,      \* local r_sensor
    current,       \* calculate_resistance: parameter current
    voltage_mean,  \* calculate_resistance: local voltage_mean
    voltage_value, \* calculate_resistance: local voltage_value
    resistance     \* calculate_resistance: local resistance

vars == <<pc, k, inst, closes, written, nq, iter, sleeps, out, exc, resp, mv,
          r_sensor, current, voltage_mean, voltage_value, resistance>>

mainVars == <<inst, closes>>
loopVars == <<k, written, nq, iter, sleeps, resp, mv, r_sensor>>
crVars == <<current, voltage_mean, voltage_value, resistance>>

\* Number of loop iterations the model follows (the code's loop is endless).
MaxIter == 2

\* The value of a local that has not been assigned
Unbound == <<"unbound">>

----------------------------------------------------------------------------
(* Exact rational arithmetic.                                              *)

Abs(n) == IF n < 0 THEN -n ELSE n

RECURSIVE GCD(_, _)
GCD(a, b) == IF b = 0 THEN a ELSE GCD(b, a % b)

\* n/d in lowest terms with a positive denominator (d # 0)
Rat(n, d) ==
    LET g == GCD(Abs(n), Abs(d))
        s == IF d < 0 THEN -1 ELSE 1
    IN  <<(s * n) \div g, (s * d) \div g>>

RatMul(a, b) == Rat(a[1] * b[1], a[2] * b[2])
RatDiv(a, b) == Rat(a[1] * b[2], a[2] * b[1])
IsZero(a) == a[1] = 0

RECURSIVE Pow10(_)
Pow10(n) == IF n = 0 THEN 1 ELSE 10 * Pow10(n - 1)

----------------------------------------------------------------------------
(* Python's str.strip, str.split, str.replace and float on text.           *)

Digits == {"0", "1", "2", "3", "4", "5", "6", "7", "8", "9"}
DigitVal(c) ==
    CASE c = "0" -> 0 [] c = "1" -> 1 [] c = "2" -> 2 [] c = "3" -> 3
      [] c = "4" -> 4 [] c = "5" -> 5 [] c = "6" -> 6 [] c = "7" -> 7
      [] c = "8" -> 8 [] c = "9" -> 9

Whitespace == {" "}

RECURSIVE LStrip(_)
LStrip(s) ==
    IF s # <<>> /\ Head(s) \in Whitespace THEN LStrip(Tail(s)) ELSE s

RECURSIVE RStrip(_)
RStrip(s) ==
    IF s # <<>> /\ s[Len(s)] \in Whitespace
    THEN RStrip(SubSeq(s, 1, Len(s) - 1))
    ELSE s

\* s.strip()
Strip(s) == RStrip(LStrip(s))

RECURSIVE SplitFrom(_, _, _)
SplitFrom(s, sep, cur) ==
    IF s = <<>> THEN <<cur>>
    ELSE IF Head(s) = sep
         THEN <<cur>> \o SplitFrom(Tail(s), sep, <<>>)
         ELSE SplitFrom(Tail(s), sep, Append(cur, Head(s)))

\* s.split(sep): the list of fields, always at least one
Split(s, sep) == SplitFrom(s, sep, <<>>)

\* s.replace(old, "") for a one-character old: every occurrence is removed
Replace(s, old) == SelectSeq(s, LAMBDA c : c # old)

RECURSIVE DigitsToNat(_)
DigitsToNat(s) ==
    IF s = <<>> THEN 0
    ELSE 10 * DigitsToNat(SubSeq(s, 1, Len(s) - 1)) + DigitVal(s[Len(s)])

\* float(s): [ok |-> TRUE, val |-> n/d], or [ok |-> FALSE] for ValueError
PyFloat(s) ==
    LET t == Strip(s)
        signed == t # <<>> /\ Head(t) \in {"+", "-"}
        body == IF signed THEN Tail(t) ELSE t
        points == {i \in 1..Len(body) : body[i] = "."}
        digs == SelectSeq(body, LAMBDA c : c \in Digits)
        valid == /\ \A i \in 1..Len(body) : body[i] \in Digits \cup {"."}
                 /\ Cardinality(points) <= 1
                 /\ digs # <<>>
        fracLen == IF points = {} THEN 0
                   ELSE Len(body) - (CHOOSE i \in points : TRUE)
        mag == DigitsToNat(digs)
    IN  IF valid
        THEN [ok |-> TRUE,
              val |-> Rat(IF signed /\ Head(t) = "-" THEN -mag ELSE mag,
                          Pow10(fracLen))]
        ELSE [ok |-> FALSE, val |-> Unbound]

\* float(text.split(",")[1].replace("V", "")) without the unit removal
ParseValue_NoReplace(text) ==
    LET fields == Split(text, ",")
    IN  IF Len(fields) < 2
        THEN [ok |-> FALSE, exc |-> "IndexError", val |-> Unbound]
        ELSE LET f == PyFloat(fields[2])
             IN  IF f.ok
                 THEN [ok |-> TRUE, exc |-> "none", val |-> f.val]
                 ELSE [ok |-> FALSE, exc |-> "ValueError", val |-> Unbound]

\* float(text.split(",")[1].replace("V", "")): the value, or the exception
ParseValue(text) ==
    LET fields == Split(text, ",")
    IN  IF Len(fields) < 2
        THEN [ok |-> FALSE, exc |-> "IndexError", val |-> Unbound]
        ELSE LET f == PyFloat(Replace(fields[2], "V"))
             IN  IF f.ok
                 THEN [ok |-> TRUE, exc |-> "none", val |-> f.val]
                 ELSE [ok |-> FALSE, exc |-> "ValueError", val |-> Unbound]

----------------------------------------------------------------------------
(* The responses the instrument gives in the model.                        *)

Channels == {<<"C", "1">>, <<"C", "2">>, <<>>}

\* float texts with the number each denotes
FloatSamples ==
    { [text |-> <<"0">>, val |-> <<0, 1>>],
      [text |-> <<"0", ".", "0">>, val |-> <<0, 1>>],
      [text |-> <<"1", ".", "5">>, val |-> <<3, 2>>],
      [text |-> <<"-", "2">>, val |-> <<-2, 1>>],
      [text |-> <<".", "5">>, val |-> <<1, 2>>],
      [text |-> <<"1", ".">>, val |-> <<1, 1>>],
      [text |-> <<"+", "3">>, val |-> <<3, 1>>],
      [text |-> <<"0", ".", "1", "2", "3">>, val |-> <<123, 1000>>],
      [text |-> <<"1", "0">>, val |-> <<10, 1>>],
      [text |-> <<"-", "0", ".", "2", "5">>, val |-> <<-1, 4>>] }

UnitLetters == {"V", "A", "v"}
Letters == {"C", "V", "A", "v", "B", "D"}

\* "<ch>,<v><unit>"
Formed(ch, v, unit) == ch \o <<",">> \o v \o <<unit>>

WellFormedResponses ==
    {Formed(ch, f.text, u) : ch \in Channels, f \in FloatSamples, u \in UnitLetters}

OtherResponses ==
    { <<>>,
      <<"C", "1">>,
      <<"C", "1", ",">>,
      <<"C", "1", ",", "V">>,
      <<"C", "1", ",", "B", "A", "D">>,
      <<"C", "1", ",", "B", "A", "D", "V">>,
      <<"C", "1", ",", "1", ".", "5">>,
      <<"C", "1", ",", "1", "V", "2", "V">>,
      <<"C", "1", ",", "V", "1", ".", "5">>,
      <<"C", "1", ",", "1", ".", "5", "V", "V">>,
      <<"C", "1", ",", "1", ".", "5", "V", ",", "9">>,
      <<"C", "1", ",", "1", ",", "5", "V">>,
      <<"C", "1", ",", "1", ".", "2", ".", "3", "V">>,
      <<"C", "1", ",", "-", "V">>,
      <<"C", "1", ",", " ", "1", ".", "5", "V">>,
      <<"C", "1", ",", "1", ".", "5", "V", " ">>,
      <<" ", "C", "2", ",", "0", "V", " ", " ">> }

\* what inst.query can return to calculate_resistance
Responses == WellFormedResponses \cup OtherResponses

\* exceptions a failing inst.write, inst.query or open_resource raises
IOErrors == {"VisaIOError", "OSError"}

Currents == {<<0, 1>>, <<1, 1>>, <<1, 2>>, <<-4, 1>>}

----------------------------------------------------------------------------
(* calculate_resistance(inst, current)                                     *)

Line(kind, data) == [kind |-> kind, data |-> data]

\* the except clauses of calculate_resistance: the line the handler prints
CRHandlerKind(e) ==
    IF e = "VisaIOError" THEN "VISA I/O Error" ELSE "General Error"

InitResistance ==
    /\ pc = "cr_check"
    /\ current \in Currents
    /\ inst = "open"
    /\ k = 1
    /\ closes = 0
    /\ written = <<>>
    /\ nq = 0
    /\ iter = 0
    /\ sleeps = 0
    /\ out = <<>>
    /\ exc = "none"
    /\ resp = [n \in {"rms_c1", "mean_c1", "rms_c2", "mean_c2"} |-> Unbound]
    /\ mv = [n \in {"rms_c1", "mean_c1", "rms_c2", "mean_c2"} |-> Unbound]
    /\ r_sensor = Unbound
    /\ voltage_mean = Unbound
    /\ voltage_value = Unbound
    /\ resistance = Unbound

\* if current == 0: raise ValueError(...)
CRCheck ==
    /\ pc = "cr_check"
    /\ IF IsZero(current)
       THEN pc' = "cr_except" /\ exc' = "ValueError"
       ELSE pc' = "cr_write" /\ exc' = exc
    /\ UNCHANGED <<mainVars, loopVars, crVars, out>>

\* inst.write("PACU MEAN,C1"); time.sleep(1)
CRWrite ==
    /\ pc = "cr_write"
    /\ written' = Append(written, "PACU MEAN,C1")
    /\ pc' = "cr_query"
    /\ UNCHANGED <<mainVars, k, nq, iter, sleeps, resp, mv, r_sensor, crVars,
                   out, exc>>

CRWriteFails ==
    /\ pc = "cr_write"
    /\ \E e \in IOErrors : exc' = e
    /\ pc' = "cr_except"
    /\ UNCHANGED <<mainVars, loopVars, crVars, out>>

\* voltage_mean = inst.query("C1:PAVA? MEAN").strip()
CRQuery ==
    /\ pc = "cr_query"
    /\ \E r \in Responses : voltage_mean' = Strip(r)
    /\ nq' = nq + 1
    /\ pc' = "cr_parse"
    /\ UNCHANGED <<mainVars, k, written, iter, sleeps, resp, mv, r_sensor,
                   current, voltage_value, resistance, out, exc>>

CRQueryFails ==
    /\ pc = "cr_query"
    /\ \E e \in IOErrors : exc' = e
    /\ pc' = "cr_except"
    /\ UNCHANGED <<mainVars, loopVars, crVars, out>>

\* try: voltage_value = float(...) except (IndexError, ValueError): raise ValueError
CRParse ==
    /\ pc = "cr_parse"
    /\ LET p == ParseValue(voltage_mean)
       IN  IF p.ok
           THEN /\ voltage_value' = p.val
                /\ pc' = "cr_compute"
                /\ exc' = exc
           ELSE /\ voltage_value' = voltage_value
                /\ pc' = "cr_except"
                /\ exc' = "ValueError"
    /\ UNCHANGED <<mainVars, loopVars, current, voltage_mean, resistance, out>>

\* resistance = voltage_value / current; print(...); return resistance
CRCompute ==
    /\ pc = "cr_compute"
    /\ resistance' = RatDiv(voltage_value, current)
    /\ out' = Append(out, Line("Calculated Resistance", resistance'))
    /\ pc' = "cr_done"
    /\ UNCHANGED <<mainVars, loopVars, current, voltage_mean, voltage_value, exc>>

\* except pyvisa.VisaIOError / except Exception: print and return None
CRExcept ==
    /\ pc = "cr_except"
    /\ out' = Append(out, Line(CRHandlerKind(exc), exc))
    /\ exc' = "none"
    /\ pc' = "cr_done"
    /\ UNCHANGED <<mainVars, loopVars, crVars>>

NextResistance ==
    \/ CRCheck
    \/ CRWrite
    \/ CRWriteFails
    \/ CRQuery
    \/ CRQueryFails
    \/ CRParse
    \/ CRCompute
    \/ CRExcept

SpecResistance == InitResistance /\ [][NextResistance]_vars

----------------------------------------------------------------------------
(* continuous_measurement(inst) and main()                                 *)

\* Resistance(10 Ohm)
R == <<10, 1>>

Thousand == <<1000, 1>>

\* the locals of the loop, in the order they are queried and converted
Names == <<"rms_c1", "mean_c1", "rms_c2", "mean_c2">>

ConfigCommands ==
    <<"PACU RMS,C1", "PACU MEAN,C1", "PACU RMS,C2", "PACU MEAN,C2">>

\* what inst.query can return to the polling loop
LoopResponses ==
    { <<"C", "1", ",", "1", ".", "5", "V">>,
      <<"C", "2", ",", "0", ".", "0", "V", " ">>,
      <<"C", "1", ",", "B", "A", "D">>,
      <<"C", "1">> }

\* f"{x:.2f}": x rounded to hundredths (ties to even), as a count of hundredths
Fmt2(x) ==
    LET n == x[1] * 100
        q == n \div x[2]
        r == n - q * x[2]
    IN  IF 2 * r > x[2] \/ (2 * r = x[2] /\ q % 2 = 1) THEN q + 1 ELSE q

\* the exceptions the try around the conversions catches
InnerCaught_OnlyValueError == {"ValueError"}

InnerCaught == {"IndexError", "ValueError"}

\* where the end of the while body goes back to
LoopHead_Reconfigure == "write"

LoopHead == "query"

\* where "continue" in the handler of the conversions goes
AfterParseError_FallThrough == "print"

AfterParseError == LoopHead

\* the except clauses of continuous_measurement: the line the handler prints
CMHandlerKind_InterruptAsError(e) ==
    IF e = "VisaIOError" THEN "VISA I/O Error" ELSE "General Error"

CMHandlerKind(e) ==
    IF e = "KeyboardInterrupt" THEN "Stopped by user."
    ELSE IF e = "VisaIOError" THEN "VISA I/O Error"
    ELSE "General Error"

\* where control goes after a handler of continuous_measurement has printed
CMExceptNext_Retry(e) == IF e \in IOErrors THEN "query" ELSE "finally"

CMExceptNext(e) == "finally"

\* the except clauses of main
MainHandlerKind(e) ==
    IF e = "VisaIOError" THEN "VISA I/O Error" ELSE "General Error"

\* the positions inside the try block of continuous_measurement
CMTryPcs == {"write", "query", "parse", "calc", "inner_except", "print", "sleep"}

Init ==
    /\ pc = "open"
    /\ k = 1
    /\ inst = "unbound"
    /\ closes = 0
    /\ written = <<>>
    /\ nq = 0
    /\ iter = 0
    /\ sleeps = 0
    /\ out = <<>>
    /\ exc = "none"
    /\ resp = [n \in {"rms_c1", "mean_c1", "rms_c2", "mean_c2"} |-> Unbound]
    /\ mv = [n \in {"rms_c1", "mean_c1", "rms_c2", "mean_c2"} |-> Unbound]
    /\ r_sensor = Unbound
    /\ current = Unbound
    /\ voltage_mean = Unbound
    /\ voltage_value = Unbound
    /\ resistance = Unbound

\* inst = rm.open_resource(scope_address)
Open ==
    /\ pc = "open"
    /\ inst' = "open"
    /\ pc' = "timeout"
    /\ UNCHANGED <<closes, loopVars, crVars, out, exc>>

OpenFails ==
    /\ pc = "open"
    /\ \E e \in IOErrors : exc' = e
    /\ pc' = "main_except"
    /\ UNCHANGED <<mainVars, loopVars, crVars, out>>

\* inst.timeout = 5000, then the call of continuous_measurement
SetTimeout ==
    /\ pc = "timeout"
    /\ pc' = "write"
    /\ k' = 1
    /\ UNCHANGED <<mainVars, written, nq, iter, sleeps, resp, mv, r_sensor,
                   crVars, out, exc>>

SetTimeoutFails ==
    /\ pc = "timeout"
    /\ \E e \in IOErrors : exc' = e
    /\ pc' = "main_except"
    /\ UNCHANGED <<mainVars, loopVars, crVars, out>>

\* inst.write("PACU RMS,C1") ... inst.write("PACU MEAN,C2")
Write ==
    /\ pc = "write"
    /\ written' = Append(written, ConfigCommands[k])
    /\ IF k < Len(ConfigCommands)
       THEN pc' = pc /\ k' = k + 1
       ELSE pc' = "query" /\ k' = 1
    /\ UNCHANGED <<mainVars, nq, iter, sleeps, resp, mv, r_sensor, crVars,
                   out, exc>>

WriteFails ==
    /\ pc = "write"
    /\ \E e \in IOErrors : exc' = e
    /\ pc' = "cm_except"
    /\ UNCHANGED <<mainVars, loopVars, crVars, out>>

\* rms_c1 = inst.query("C1:PAVA? RMS").strip() ... mean_c2 = ...
Query ==
    /\ pc = "query"
    /\ iter < MaxIter
    /\ \E r \in LoopResponses : resp' = [resp EXCEPT ![Names[k]] = Strip(r)]
    /\ nq' = nq + 1
    /\ IF k < Len(Names)
       THEN pc' = pc /\ k' = k + 1
       ELSE pc' = "parse" /\ k' = 1
    /\ UNCHANGED <<mainVars, written, iter, sleeps, mv, r_sensor, crVars,
                   out, exc>>

QueryFails ==
    /\ pc = "query"
    /\ iter < MaxIter
    /\ \E e \in IOErrors : exc' = e
    /\ pc' = "cm_except"
    /\ UNCHANGED <<mainVars, loopVars, crVars, out>>

\* rms_c1_mv = float(rms_c1.split(",")[1].replace("V", "")) * 1000 ...
Parse ==
    /\ pc = "parse"
    /\ LET p == ParseValue(resp[Names[k]])
       IN  IF p.ok
           THEN /\ mv' = [mv EXCEPT ![Names[k]] = RatMul(p.val, Thousand)]
                /\ exc' = exc
                /\ IF k < Len(Names)
                   THEN pc' = pc /\ k' = k + 1
                   ELSE pc' = "calc" /\ k' = 1
           ELSE /\ mv' = mv
                /\ exc' = p.exc
                /\ pc' = "inner_except"
                /\ k' = k
    /\ UNCHANGED <<mainVars, written, nq, iter, sleeps, resp, r_sensor, crVars,
                   out>>

\* r_sensor = (mean_c1_mv / mean_c2_mv) * R
Calc ==
    /\ pc = "calc"
    /\ IF IsZero(mv["mean_c2"])
       THEN /\ exc' = "ZeroDivisionError"
            /\ pc' = "inner_except"
            /\ r_sensor' = r_sensor
       ELSE /\ r_sensor' = RatMul(RatDiv(mv["mean_c1"], mv["mean_c2"]), R)
            /\ pc' = "print"
            /\ exc' = exc
    /\ UNCHANGED <<mainVars, k, written, nq, iter, sleeps, resp, mv, crVars,
                   out>>

\* except (IndexError, ValueError): print(...); continue -- any other
\* exception leaves the loop for the handlers of the outer try.  The printed
\* line echoes the locals rms_c1 ... mean_c2, which resp holds: the line
\* records that there were four of them.
InnerExcept ==
    /\ pc = "inner_except"
    /\ IF exc \in InnerCaught
       THEN /\ out' = Append(out, Line("Unexpected response", Len(Names)))
            /\ exc' = "none"
            /\ pc' = AfterParseError
            /\ k' = 1
            /\ iter' = iter + 1
       ELSE /\ pc' = "cm_except"
            /\ UNCHANGED <<out, exc, k, iter>>
    /\ UNCHANGED <<mainVars, written, nq, sleeps, resp, mv, r_sensor, crVars>>

\* print(f"RMS_C1: {rms_c1_mv:.2f} mV | ... | R_SENSOR: {r_sensor:.2f}")
\* (reading a local that was never assigned raises UnboundLocalError)
PrintLine ==
    /\ pc = "print"
    /\ IF r_sensor = Unbound \/ \E i \in 1..Len(Names) : mv[Names[i]] = Unbound
       THEN /\ exc' = "UnboundLocalError"
            /\ pc' = "cm_except"
            /\ out' = out
       ELSE /\ out' = Append(out,
                        Line("measurement",
                             [mvs |-> [i \in 1..Len(Names) |-> Fmt2(mv[Names[i]])],
                              r |-> Fmt2(r_sensor)]))
            /\ pc' = "sleep"
            /\ exc' = exc
    /\ UNCHANGED <<mainVars, loopVars, crVars>>

\* time.sleep(1), then back to the top of the while body
Sleep ==
    /\ pc = "sleep"
    /\ sleeps' = sleeps + 1
    /\ iter' = iter + 1
    /\ pc' = LoopHead
    /\ k' = 1
    /\ UNCHANGED <<mainVars, written, nq, resp, mv, r_sensor, crVars, out, exc>>

\* Ctrl + C while the try block of continuous_measurement runs
Interrupt ==
    /\ pc \in CMTryPcs
    /\ exc' = "KeyboardInterrupt"
    /\ pc' = "cm_except"
    /\ UNCHANGED <<mainVars, loopVars, crVars, out>>

\* except KeyboardInterrupt / pyvisa.VisaIOError / Exception: print, return
CMExcept ==
    /\ pc = "cm_except"
    /\ out' = Append(out, Line(CMHandlerKind(exc), exc))
    /\ exc' = "none"
    /\ pc' = CMExceptNext(exc)
    /\ UNCHANGED <<mainVars, loopVars, crVars>>

\* main: except pyvisa.VisaIOError / except Exception: print
MainExcept ==
    /\ pc = "main_except"
    /\ out' = Append(out, Line(MainHandlerKind(exc), exc))
    /\ exc' = "none"
    /\ pc' = "finally"
    /\ UNCHANGED <<mainVars, loopVars, crVars>>

\* the number of close() calls after the finally clause has run inst.close()
Closed(c) == c + 1

\* finally: inst.close() -- with inst never assigned the read of inst raises
\* UnboundLocalError, which leaves main
Finally ==
    /\ pc = "finally"
    /\ IF inst = "unbound"
       THEN /\ exc' = "UnboundLocalError"
            /\ pc' = "main_raised"
            /\ UNCHANGED <<inst, closes>>
       ELSE /\ inst' = "closed"
            /\ closes' = Closed(closes)
            /\ pc' = "done"
            /\ exc' = exc
    /\ UNCHANGED <<loopVars, crVars, out>>

Next ==
    \/ Open
    \/ OpenFails
    \/ SetTimeout
    \/ SetTimeoutFails
    \/ Write
    \/ WriteFails
    \/ Query
    \/ QueryFails
    \/ Parse
    \/ Calc
    \/ InnerExcept
    \/ PrintLine
    \/ Sleep
    \/ Interrupt
    \/ CMExcept
    \/ MainExcept
    \/ Finally

Spec == Init /\ [][Next]_vars

----------------------------------------------------------------------------
(* Properties                                                              *)

Last(s) == s[Len(s)]

ParseErrors == {"IndexError", "ValueError"}

\* calculate_resistance has run its conversion of voltage_mean
ParseDone ==
    /\ voltage_mean # Unbound
    /\ pc \in {"cr_compute", "cr_done", "cr_except"}

NumericSegment(text) ==
    LET first == CHOOSE i \in 1..Len(text) :
                     text[i] = "," /\ \A j \in 1..(i - 1) : text[j] # ","
        rest == SubSeq(text, first + 1, Len(text))
    IN  IF rest # <<>> /\ Last(rest) \in Letters
        THEN SubSeq(rest, 1, Len(rest) - 1)
        ELSE rest

Malformed(text) ==
    \/ \A i \in 1..Len(text) : text[i] # ","
    \/ ~PyFloat(NumericSegment(text)).ok

\* C2: a response with no comma, or whose numeric segment (the text after the
\* first separator with one trailing unit letter stripped) is no float text,
\* fails to convert: it never becomes a number that is used in the resistance
\* computation or printed.
MalformedNeverConverted ==
    (ParseDone /\ Malformed(voltage_mean))
        => (voltage_value = Unbound /\ resistance = Unbound)

\* C3: a division error in the resistance computation (mean of channel 2 is
\* zero) is handled inside the loop, which goes on with the next iteration: it
\* never reaches the handlers that end continuous_measurement.
DivisionErrorSkipsIteration ==
    exc = "ZeroDivisionError" => pc \notin {"cm_except", "finally", "done"}

\* the measurement line the responses held by resp give
ExpectedLine ==
    LET v(n) == RatMul(ParseValue(resp[n]).val, Thousand)
    IN  [mvs |-> [i \in 1..Len(Names) |-> Fmt2(v(Names[i]))],
         r |-> Fmt2(RatMul(RatDiv(v("mean_c1"), v("mean_c2")), R))]

CommErrorInPolling ==
    /\ written = ConfigCommands
    /\ \/ pc = "cm_except" /\ exc \in IOErrors
       \/ /\ out # <<>>
          /\ Last(out).kind \in {"VISA I/O Error", "General Error"}
          /\ Last(out).data \in IOErrors

\* C5: after a query of the polling loop raised a communication error the
\* error is printed, no write or query is issued any more, and the session has
\* been closed exactly once when main is done.
CommErrorEndsLoop ==
    /\ [](CommErrorInPolling =>
            /\ pc \in {"cm_except", "finally", "done"}
            /\ closes = IF pc = "done" THEN 1 ELSE 0)
    /\ [][(pc = "cm_except" /\ exc \in IOErrors)
             => /\ out' = Append(out, Line(IF exc = "VisaIOError"
                                           THEN "VISA I/O Error"
                                           ELSE "General Error", exc))
                /\ pc' = "finally"]_vars
    /\ [][CommErrorInPolling => (nq' = nq /\ written' = written)]_vars

CommErrorEndsLoopWitness ==
    /\ pc = "done"
    /\ closes = 1
    /\ inst = "closed"
    /\ nq > Len(Names)
    /\ Last(out) = Line("VISA I/O Error", "VisaIOError")

\* C6: on every error path main ends without an exception in flight.
MainNeverRaises == pc # "main_raised"

Stopped == out # <<>> /\ Last(out).kind = "Stopped by user."

\* C7: a KeyboardInterrupt raised anywhere in the try block of
\* continuous_measurement is handled by its handler, which prints "Stopped by
\* user." and returns; after that no query or write is issued, nothing more is
\* printed, and the session has been closed exactly once when main is done.
InterruptStopsLoop ==
    /\ [](exc = "KeyboardInterrupt" => pc = "cm_except")
    /\ [][(pc = "cm_except" /\ exc = "KeyboardInterrupt")
             => /\ out' = Append(out, Line("Stopped by user.", exc))
                /\ pc' = "finally"]_vars
    /\ [][Stopped => (nq' = nq /\ written' = written /\ out' = out)]_vars
    /\ [](Stopped => /\ pc \in {"finally", "done"}
                     /\ closes = IF pc = "done" THEN 1 ELSE 0)

InterruptStopsLoopWitness ==
    /\ pc = "done"
    /\ Stopped
    /\ closes = 1
    /\ iter >= 1
    /\ nq > Len(Names)

\* C8: whenever the loop is about to issue the first query of an iteration,
\* the pacing delay has been taken once for every iteration finished before.
SleepsBetweenIterations ==
    (pc = "query" /\ k = 1) => sleeps = iter

\* C9: the four configuration commands are written in order, once each, before
\* the first query; once a query has been issued nothing more is written; and
\* no query is issued unless all four writes were made.
ConfigureThenPoll ==
    /\ Len(written) <= Len(ConfigCommands)
    /\ written = SubSeq(ConfigCommands, 1, Len(written))
    /\ nq > 0 => written = ConfigCommands
    /\ pc \in {"query", "parse", "calc", "inner_except", "print", "sleep"}
           => written = ConfigCommands

ConfigureThenPollWitness ==
    /\ nq = Len(Names) + 1
    /\ iter = 1
    /\ written = ConfigCommands

\* C10: a step prints at most one line; a measurement line is printed only for
\* an iteration that has printed nothing yet, whose four responses all convert
\* and whose resistance was computed, and it shows the values of exactly these
\* responses; an error line of the loop is printed only for an iteration that
\* has printed nothing yet.
OneLinePerIteration ==
    [][out' # out =>
         /\ out' = Append(out, Last(out'))
         /\ Last(out').kind = "measurement" =>
               /\ Len(out) = iter
               /\ \A i \in 1..Len(Names) : ParseValue(resp[Names[i]]).ok
               /\ ~IsZero(ParseValue(resp["mean_c2"]).val)
               /\ Last(out').data = ExpectedLine
         /\ Last(out').kind \in {"Unexpected response", "General Error"} =>
               Len(out) = iter]_vars

OneLinePerIterationWitness ==
    /\ Len(out) = 2
    /\ out[1].kind = "measurement"
    /\ out[2].kind = "measurement"
    /\ out[1].data # out[2].data

=============================================================================
